---- MODULE Spec2Model ----
(***************************************************************************)
(* Model of src/App.tsx: the App component's state (isListening,           *)
(* transcript, language, error, the refs recognitionRef and                *)
(* transcriptAtSessionStart), its handlers, and the SpeechRecognition      *)
(* instances whose events drive them.  Strings are sequences of            *)
(* one-character strings so that trim() and concatenation are computed.    *)
(***************************************************************************)
EXTENDS Integers, Sequences, FiniteSets, TLC

(* ---------------------------- bounds ----------------------------------- *)
\* longest transcript the recognizer is allowed to produce
MaxLen == 3
\* most entries of event.results within one recognition session
MaxResults == 2
\* most replaced recognizer instances that are still running
MaxStale == 1
\* most entries of event.results a replaced (stopped) instance still delivers
MaxStaleResults == 1

(* ------------------------- program constants --------------------------- *)
\* the locale codes of LANGUAGES offered by the <select> (a subset)
LANGUAGES == {"en-US", "es-ES"}

\* event.error codes; "aborted" stands for every code the handler does not name
ErrorKinds == {"no-speech", "audio-capture", "not-allowed", "aborted"}

\* the transcripts event.results[i][0].transcript may carry
Texts == {<<"a">>, <<" ">>}

NotSupportedMessage == "Speech recognition is not supported in this browser. Please try Chrome or Edge."

\* error state null
NoError == "null"

VARIABLES
    supported,                 \* window.SpeechRecognition || window.webkitSpeechRecognition
    isListening,               \* useState(false)
    transcript,                \* useState('')
    language,                  \* useState('en-US')
    error,                     \* useState<string | null>(null)
    transcriptAtSessionStart,  \* useRef('')
    recognition,               \* recognitionRef.current: the instance of the current effect
    stale,                     \* instances of earlier effects that have not ended yet
    sinceClear,                \* TRUE from handleClear until the next onresult
    last                       \* the handler that ran last and the recognizer call it made

vars == <<supported, isListening, transcript, language, error,
          transcriptAtSessionStart, recognition, stale,
          sinceClear, last>>

(* --------------------------- string helpers ---------------------------- *)
\* String.prototype.trim() white space
IsWhitespace(c) == c \in {" ", "\n", "\t"}

RECURSIVE TrimStart(_)
TrimStart(s) ==
    IF s = <<>> THEN <<>>
    ELSE IF IsWhitespace(Head(s)) THEN TrimStart(Tail(s))
    ELSE s

RECURSIVE TrimEnd(_)
TrimEnd(s) ==
    IF s = <<>> THEN <<>>
    ELSE IF IsWhitespace(s[Len(s)]) THEN TrimEnd(SubSeq(s, 1, Len(s) - 1))
    ELSE s

\* a trim that strips the end only (String.prototype.trimEnd)
trim_TrailingOnly(s) == TrimEnd(s)

\* a trim that strips the beginning only (String.prototype.trimStart)
trim_LeadingOnly(s) == TrimStart(s)

\* transcript.trim()
trim(s) == TrimEnd(TrimStart(s))

\* the carried text without the separating space
sessionStartText_NoSeparator(text) == text

\* currentTranscript ? currentTranscript + ' ' : ''
sessionStartText(text) ==
    IF text # <<>> THEN text \o <<" ">> ELSE <<>>

(* ------------------------- SpeechRecognition --------------------------- *)
\* one result slot: event.results[i].isFinal, event.results[i][0].transcript
ResultEntry(t, f) == [transcript |-> t, isFinal |-> f]

\* a recognizer instance: st is "idle" (no session), "starting" (start()
\* called, start event not fired), "running", or "ending" (error fired, end
\* event not fired); results is the result list of its session
NewRecognition(lang) ==
    [st |-> "idle", stopRequested |-> FALSE, results |-> <<>>, lang |-> lang]

\* recognitionRef.current when the capability is missing
NullRecognition == [st |-> "null", stopRequested |-> FALSE, results |-> <<>>,
                    lang |-> "none"]

\* start(): begins a session, or throws InvalidStateError on a started object
start(r) ==
    IF r.st = "idle"
    THEN [r EXCEPT !.st = "starting", !.stopRequested = FALSE, !.results = <<>>]
    ELSE r

startCall(r) == IF r.st = "idle" THEN "start" ELSE "start-InvalidStateError"

\* stop(): asks a started session to end; ignored otherwise
stop(r) ==
    IF r.st \in {"starting", "running"}
    THEN [r EXCEPT !.stopRequested = TRUE]
    ELSE r

(* ------------------------------ onresult ------------------------------- *)
\* the for loop of onresult: i runs over the 1-based positions
\* event.resultIndex + 1 .. event.results.length
RECURSIVE sessionTranscripts(_, _, _, _)
sessionTranscripts(results, i, sessionFinalTranscript, sessionInterimTranscript) ==
    IF i > Len(results)
    THEN <<sessionFinalTranscript, sessionInterimTranscript>>
    ELSE IF results[i].isFinal
         THEN sessionTranscripts(results, i + 1,
                  sessionFinalTranscript \o results[i].transcript,
                  sessionInterimTranscript)
         ELSE sessionTranscripts(results, i + 1,
                  sessionFinalTranscript,
                  sessionInterimTranscript \o results[i].transcript)

\* a fold that ignores event.resultIndex and scans event.results from 0
onresultTranscript_FromZero(base, resultIndex, results) ==
    LET s == sessionTranscripts(results, 1, <<>>, <<>>)
    IN  base \o s[1] \o s[2]

\* the value handed to setTranscript by onresult
onresultTranscript(base, resultIndex, results) ==
    LET s == sessionTranscripts(results, resultIndex + 1, <<>>, <<>>)
    IN  base \o s[1] \o s[2]

(* ------------------------------ onerror -------------------------------- *)
errorMessage(kind) ==
    CASE kind = "no-speech" -> "No speech was detected. Please try again."
      [] kind = "audio-capture" -> "Microphone is not available. Please check your microphone settings."
      [] kind = "not-allowed" -> "Permission to use microphone was denied. Please allow microphone access in your browser settings."
      [] OTHER -> "An error occurred: " \o kind

\* StatusIndicator: the error message first, then the listening flag
Status ==
    IF error # NoError THEN "Error"
    ELSE IF isListening THEN "Listening"
    ELSE "Idle"

\* the handler that ran last: its name, the instance that fired it, the
\* recognizer call it made, and the event object of onresult with the number
\* of entries the instance had already delivered before it (known)
NoEvent == [resultIndex |-> 0, results |-> <<>>, known |-> 0]
Last(op, from, call) == [op |-> op, from |-> from, call |-> call, event |-> NoEvent]
LastResult(from, resultIndex, results, known) ==
    [op |-> "onresult", from |-> from, call |-> "none",
     event |-> [resultIndex |-> resultIndex, results |-> results, known |-> known]]

(* ------------------------------- Init ---------------------------------- *)
Init ==
    /\ supported \in BOOLEAN
    /\ isListening = FALSE
    /\ transcript = <<>>
    /\ language = "en-US"
    /\ error = IF supported THEN NoError ELSE NotSupportedMessage
    /\ transcriptAtSessionStart = <<>>
    /\ recognition = IF supported THEN NewRecognition("en-US") ELSE NullRecognition
    /\ stale = <<>>
    /\ sinceClear = FALSE
    /\ last = Last("init", "none", "none")

(* ----------------------- handlers of the component --------------------- *)
\* a toggle that calls recognitionRef.current.start() / .stop() without the ?.
handleToggleListening_NoNullCheck ==
    /\ IF isListening
       THEN /\ recognition' = stop(recognition)
            /\ last' = Last("toggle", "none", "stop")
            /\ UNCHANGED transcriptAtSessionStart
       ELSE /\ LET currentTranscript == trim(transcript)
               IN  transcriptAtSessionStart' = sessionStartText(currentTranscript)
            /\ recognition' = start(recognition)
            /\ last' = Last("toggle", "none", startCall(recognition))
    /\ UNCHANGED <<supported, isListening, transcript, language, error, stale, sinceClear>>

\* handleToggleListening; recognitionRef.current?. skips the call on null
handleToggleListening ==
    /\ IF isListening
       THEN /\ recognition' = IF supported THEN stop(recognition) ELSE recognition
            /\ last' = Last("toggle", "none", IF supported THEN "stop" ELSE "none")
            /\ UNCHANGED transcriptAtSessionStart
       ELSE /\ LET currentTranscript == trim(transcript)
               IN  transcriptAtSessionStart' = sessionStartText(currentTranscript)
            /\ recognition' = IF supported THEN start(recognition) ELSE recognition
            /\ last' = Last("toggle", "none",
                            IF supported THEN startCall(recognition) ELSE "none")
    /\ UNCHANGED <<supported, isListening, transcript, language, error, stale, sinceClear>>

\* a clear that also dismisses the error message
handleClear_ClearsError ==
    /\ transcript # <<>>
    /\ ~isListening
    /\ transcript' = <<>>
    /\ transcriptAtSessionStart' = <<>>
    /\ error' = NoError
    /\ sinceClear' = TRUE
    /\ last' = Last("clear", "none", "none")
    /\ UNCHANGED <<supported, isListening, language, recognition, stale>>

\* handleClear, reachable through the clear button: disabled={!transcript || isListening}
handleClear ==
    /\ transcript # <<>>
    /\ ~isListening
    /\ transcript' = <<>>
    /\ transcriptAtSessionStart' = <<>>
    /\ sinceClear' = TRUE
    /\ last' = Last("clear", "none", "none")
    /\ UNCHANGED <<supported, isListening, language, error, recognition, stale>>

\* <select onChange={setLanguage} disabled={isListening}> followed by the
\* [language] effect: cleanup of the previous run, then the effect body
setLanguage(l) ==
    /\ ~isListening
    /\ l # language
    /\ language' = l
    /\ IF supported
       THEN LET old == stop(recognition)
            IN  /\ recognition' = NewRecognition(l)
                /\ IF old.st = "idle"
                   THEN stale' = stale
                   ELSE /\ Len(stale) < MaxStale
                        /\ stale' = Append(stale, old)
                /\ error' = error
       ELSE /\ error' = NotSupportedMessage
            /\ UNCHANGED <<recognition, stale>>
    /\ last' = Last("language", "none", IF supported THEN "stop" ELSE "none")
    /\ UNCHANGED <<supported, isListening, transcript, transcriptAtSessionStart, sinceClear>>

(* -------------------- events of a recognizer instance ------------------ *)
\* the result events a running session may fire: <<resultIndex, results>>,
\* resultIndex the lowest changed index; a final entry is never revised
Batches(r, max) ==
    LET n == Len(r.results)
        appended == IF n < max
                    THEN {<<n, Append(r.results, ResultEntry(t, f))>> :
                              t \in Texts, f \in BOOLEAN}
                    ELSE {}
        revised == UNION {
                     {<<i - 1, [r.results EXCEPT ![i] = ResultEntry(t, f)]>> :
                          <<t, f>> \in {e \in Texts \X BOOLEAN :
                                          ResultEntry(e[1], e[2]) # r.results[i]}} :
                     i \in {j \in 1..n : ~r.results[j].isFinal}}
        empty == {<<n, r.results>>}
    IN  appended \cup revised \cup empty

CanStart(r) == r.st = "starting"
CanEnd(r) == \/ r.st \in {"running", "ending"}
             \/ r.st = "starting" /\ r.stopRequested
CanError(r) == r.st \in {"starting", "running"}
CanResult(r) == r.st = "running"

\* recognition.onstart
onstart(from) ==
    /\ isListening' = TRUE
    /\ error' = NoError
    /\ last' = Last("onstart", from, "none")
    /\ UNCHANGED <<supported, transcript, language, transcriptAtSessionStart, sinceClear>>

\* an onend that also puts the transcript back to the text of the session start
onend_ResetTranscript(from) ==
    /\ isListening' = FALSE
    /\ transcript' = transcriptAtSessionStart
    /\ last' = Last("onend", from, "none")
    /\ UNCHANGED <<supported, language, error, transcriptAtSessionStart, sinceClear>>

\* an onend that also dismisses the error message
onend_ClearsError(from) ==
    /\ isListening' = FALSE
    /\ error' = NoError
    /\ last' = Last("onend", from, "none")
    /\ UNCHANGED <<supported, transcript, language, transcriptAtSessionStart, sinceClear>>

\* recognition.onend
onend(from) ==
    /\ isListening' = FALSE
    /\ last' = Last("onend", from, "none")
    /\ UNCHANGED <<supported, transcript, language, error, transcriptAtSessionStart, sinceClear>>

\* an onerror that also resets the listening flag
onerror_EndsListening(from, kind) ==
    /\ error' = errorMessage(kind)
    /\ isListening' = FALSE
    /\ last' = Last("onerror", from, "none")
    /\ UNCHANGED <<supported, transcript, language, transcriptAtSessionStart, sinceClear>>

\* recognition.onerror
onerror(from, kind) ==
    /\ error' = errorMessage(kind)
    /\ last' = Last("onerror", from, "none")
    /\ UNCHANGED <<supported, isListening, transcript, language,
                   transcriptAtSessionStart, sinceClear>>

\* recognition.onresult
onresult(from, resultIndex, results, known) ==
    /\ transcript' = onresultTranscript(transcriptAtSessionStart, resultIndex, results)
    /\ Len(transcript') <= MaxLen
    /\ sinceClear' = FALSE
    /\ last' = LastResult(from, resultIndex, results, known)
    /\ UNCHANGED <<supported, isListening, language, error, transcriptAtSessionStart>>

\* events of recognitionRef.current
CurrentStart ==
    /\ CanStart(recognition)
    /\ recognition' = [recognition EXCEPT !.st = "running"]
    /\ onstart("current")
    /\ UNCHANGED stale

CurrentEnd ==
    /\ CanEnd(recognition)
    /\ recognition' = NewRecognition(recognition.lang)
    /\ onend("current")
    /\ UNCHANGED stale

CurrentError ==
    /\ CanError(recognition)
    /\ recognition' = [recognition EXCEPT !.st = "ending", !.results = <<>>]
    /\ \E kind \in ErrorKinds : onerror("current", kind)
    /\ UNCHANGED stale

CurrentResult ==
    /\ CanResult(recognition)
    /\ \E b \in Batches(recognition, MaxResults) :
          /\ recognition' = [recognition EXCEPT !.results = b[2]]
          /\ onresult("current", b[1], b[2], Len(recognition.results))
    /\ UNCHANGED stale

\* events of an instance replaced by a language change: its handlers are
\* still attached and close over the same state setters and refs
RemoveAt(s, k) == SubSeq(s, 1, k - 1) \o SubSeq(s, k + 1, Len(s))

StaleStart ==
    \E k \in 1..Len(stale) :
        /\ CanStart(stale[k])
        /\ stale' = [stale EXCEPT ![k].st = "running"]
        /\ onstart("stale")
        /\ UNCHANGED recognition

StaleEnd ==
    \E k \in 1..Len(stale) :
        /\ CanEnd(stale[k])
        /\ stale' = RemoveAt(stale, k)
        /\ onend("stale")
        /\ UNCHANGED recognition

StaleError ==
    \E k \in 1..Len(stale) :
        /\ CanError(stale[k])
        /\ stale' = [stale EXCEPT ![k].st = "ending", ![k].results = <<>>]
        /\ \E kind \in ErrorKinds : onerror("stale", kind)
        /\ UNCHANGED recognition

StaleResult ==
    \E k \in 1..Len(stale) :
        /\ CanResult(stale[k])
        /\ \E b \in Batches(stale[k], MaxStaleResults) :
              /\ stale' = [stale EXCEPT ![k].results = b[2]]
              /\ onresult("stale", b[1], b[2], Len(stale[k].results))
        /\ UNCHANGED recognition

(* ------------ the handlers themselves, without the controls ------------ *)
\* the body of handleClear as the component defines it: it reads no state
\* and returns early on nothing
handleClearCall ==
    /\ transcript' = <<>>
    /\ transcriptAtSessionStart' = <<>>
    /\ sinceClear' = TRUE
    /\ last' = Last("clear", "none", "none")
    /\ UNCHANGED <<supported, isListening, language, error, recognition, stale>>

\* setLanguage(value) as the onChange handler calls it, followed by the
\* [language] effect; the state setter itself looks at no listening flag
setLanguageCall(l) ==
    /\ l # language
    /\ language' = l
    /\ IF supported
       THEN LET old == stop(recognition)
            IN  /\ recognition' = NewRecognition(l)
                /\ IF old.st = "idle"
                   THEN stale' = stale
                   ELSE /\ Len(stale) < MaxStale
                        /\ stale' = Append(stale, old)
                /\ error' = error
       ELSE /\ error' = NotSupportedMessage
            /\ UNCHANGED <<recognition, stale>>
    /\ last' = Last("language", "none", IF supported THEN "stop" ELSE "none")
    /\ UNCHANGED <<supported, isListening, transcript, transcriptAtSessionStart, sinceClear>>

(* --------------------------- specifications ---------------------------- *)
Next ==
    \/ handleToggleListening
    \/ handleClear
    \/ \E l \in LANGUAGES : setLanguage(l)
    \/ CurrentStart
    \/ CurrentEnd
    \/ CurrentError
    \/ CurrentResult
    \/ StaleStart
    \/ StaleEnd
    \/ StaleError
    \/ StaleResult

Spec == Init /\ [][Next]_vars

\* start/stop cycles only: no clear and no language change
NextCycles ==
    \/ handleToggleListening
    \/ CurrentStart
    \/ CurrentEnd
    \/ CurrentError
    \/ CurrentResult

SpecCycles == Init /\ [][NextCycles]_vars

\* the operations invoked as functions, whatever the controls show
NextOperations ==
    \/ handleToggleListening
    \/ handleClearCall
    \/ \E l \in LANGUAGES : setLanguageCall(l)
    \/ CurrentStart
    \/ CurrentEnd
    \/ CurrentError
    \/ CurrentResult
    \/ StaleStart
    \/ StaleEnd
    \/ StaleError
    \/ StaleResult

SpecOperations == Init /\ [][NextOperations]_vars

\* the end event the platform owes: after stop() on a started recognizer and
\* after an error event, the end event follows
EndDue(r) ==
    \/ r.st = "ending"
    \/ r.st \in {"starting", "running"} /\ r.stopRequested

CurrentEndDue == EndDue(recognition) /\ CurrentEnd

StaleEndDue ==
    \E k \in 1..Len(stale) :
        /\ EndDue(stale[k])
        /\ stale' = RemoveAt(stale, k)
        /\ onend("stale")
        /\ UNCHANGED recognition

\* Spec with the platform delivering every end event it owes
SpecFair == Spec /\ WF_vars(CurrentEndDue) /\ WF_vars(StaleEndDue)

(* ------------------------ vocabulary of the claims --------------------- *)
RECURSIVE ConcatTexts(_)
ConcatTexts(entries) ==
    IF entries = <<>> THEN <<>>
    ELSE Head(entries).transcript \o ConcatTexts(Tail(entries))

FinalEntries(entries) == SelectSeq(entries, LAMBDA e : e.isFinal)
InterimEntries(entries) == SelectSeq(entries, LAMBDA e : ~e.isFinal)

\* the entries a result event carries: those from event.resultIndex on
BatchEntries(event) ==
    SubSeq(event.results, event.resultIndex + 1, Len(event.results))

\* s without its leading and trailing white space, by first and last position
Stripped(s) ==
    LET keep == {i \in 1..Len(s) : ~IsWhitespace(s[i])}
    IN  IF keep = {} THEN <<>>
        ELSE SubSeq(s, CHOOSE i \in keep : \A j \in keep : i <= j,
                       CHOOSE i \in keep : \A j \in keep : i >= j)

\* s without its trailing white space only
StrippedAtEnd(s) ==
    LET keep == {i \in 1..Len(s) : ~IsWhitespace(s[i])}
    IN  IF keep = {} THEN <<>>
        ELSE SubSeq(s, 1, CHOOSE i \in keep : \A j \in keep : i >= j)

WithOneSpace(s) == IF s = <<>> THEN <<>> ELSE s \o <<" ">>

AfterResult == last.op = "onresult"
AfterSessionStart == last.op = "toggle" /\ last.call = "start"

(* -------------------------------- C1 ----------------------------------- *)
\* C1: after every result batch the displayed transcript is baseText, then
\* every result finalized so far in the session in index order (also those
\* below the batch's starting index), then the current interim results.
C1_TranscriptHoldsAllFinalized ==
    AfterResult =>
        transcript = transcriptAtSessionStart
                       \o ConcatTexts(FinalEntries(last.event.results))
                       \o ConcatTexts(InterimEntries(last.event.results))

(* -------------------------------- C2 ----------------------------------- *)
\* C2 as written: a toggle that starts a session sets baseText to the shown
\* transcript with its trailing white space removed plus one space (empty if
\* that is empty), and the session starts with an empty result buffer.
C2_BaseTextTrailingTrim ==
    AfterSessionStart =>
        /\ transcriptAtSessionStart = WithOneSpace(StrippedAtEnd(transcript))
        /\ recognition.results = <<>>

\* C2 amended: white space is removed at both ends of the shown transcript
\* before the single space is appended; the result buffer starts empty.
C2_BaseTextTrimmedBothEnds ==
    AfterSessionStart =>
        /\ transcriptAtSessionStart = WithOneSpace(Stripped(transcript))
        /\ recognition.st = "starting"
        /\ recognition.results = <<>>

\* a session is started over a shown transcript that begins with white space
C2_Witness ==
    /\ AfterSessionStart
    /\ Len(transcript) >= 2
    /\ IsWhitespace(transcript[1])
    /\ transcriptAtSessionStart # <<>>

C4_EmptyBatchIsNoOp ==
    [][ (last'.op = "onresult"
           /\ last'.event.resultIndex = Len(last'.event.results))
        => UNCHANGED <<transcript, transcriptAtSessionStart, isListening, error>> ]_vars

(* -------------------------------- C5 ----------------------------------- *)
\* C5: start() is never issued to a recognizer whose session is active or
\* pending: the toggle's own state check keeps a second toggle from calling it.
C5_StartOnlyOnIdleRecognizer ==
    ~(last.op = "toggle" /\ last.call = "start-InvalidStateError")

(* -------------------------------- C6 ----------------------------------- *)
\* C6: no notification of a recognizer replaced by a language switch changes
\* the transcript or the status.
C6_StaleEventsChangeNothing ==
    [][ last'.from = "stale" => UNCHANGED <<transcript, isListening, error>> ]_vars

(* -------------------------------- C7 ----------------------------------- *)
\* the indices whose text the handler puts into the transcript: the fold run
\* on entries that carry their own index as text
IndexedEntries(results) ==
    [i \in 1..Len(results) |-> ResultEntry(<<i>>, results[i].isFinal)]

ShownIndices(event) ==
    onresultTranscript(<<>>, event.resultIndex, IndexedEntries(event.results))

Occurrences(x, s) == Cardinality({k \in 1..Len(s) : s[k] = x})

\* C7: once an index is final, its text is in the transcript exactly once
\* after every later batch of the session.
C7_FinalTextShownExactlyOnce ==
    AfterResult =>
        \A i \in 1..Len(last.event.results) :
            last.event.results[i].isFinal => Occurrences(i, ShownIndices(last.event)) = 1

(* -------------------------------- C8 ----------------------------------- *)
\* C8: after every batch the transcript is baseText and the batch's final
\* entries followed by exactly the batch's non-final entries: interim text of
\* an earlier batch never remains, and a batch of final entries leaves none.
C8_InterimReplaced ==
    AfterResult =>
        transcript = transcriptAtSessionStart
                       \o ConcatTexts(FinalEntries(BatchEntries(last.event)))
                       \o ConcatTexts(InterimEntries(BatchEntries(last.event)))

\* a batch that revises the interim entry of index 0, delivered before with
\* another text: only the new text follows baseText
C8_Witness ==
    /\ AfterResult
    /\ last.event.known = 1
    /\ last.event.resultIndex = 0
    /\ last.event.results = <<ResultEntry(<<"a">>, FALSE)>>
    /\ transcript = transcriptAtSessionStart \o <<"a">>

(* -------------------------------- C9 ----------------------------------- *)
\* C9: an error notification and an end notification leave the transcript
\* and baseText as they were, for every error code.
C9_ErrorKeepsText ==
    [][ last'.op \in {"onerror", "onend"}
        => UNCHANGED <<transcript, transcriptAtSessionStart>> ]_vars

\* a session that showed text has ended after a no-speech error
C9_Witness ==
    /\ last.op = "onend"
    /\ error = errorMessage("no-speech")
    /\ transcript # <<>>
    /\ transcript # transcriptAtSessionStart

(* -------------------------------- C10 ---------------------------------- *)
\* C10: from a clear until the next result is folded, the transcript and
\* baseText are empty, also across a toggle that starts the next session, and
\* the first batch folded after the clear shows none of the entries that had
\* been delivered before it: no text from before the clear comes back.
C10_ClearResetsFully ==
    /\ [](sinceClear => transcript = <<>> /\ transcriptAtSessionStart = <<>>)
    /\ [][ (sinceClear /\ last'.op = "onresult")
            => last'.event.resultIndex >= last'.event.known ]_vars

(* -------------------------------- C11 ---------------------------------- *)
\* C11: the clear operation itself changes neither the transcript nor
\* baseText when it is invoked while the listening flag is true or while the
\* transcript is empty, whatever the clear button shows.
C11_ClearRejectedByOperation ==
    [][ (last'.op = "clear" /\ (isListening \/ transcript = <<>>))
        => UNCHANGED <<transcript, transcriptAtSessionStart>> ]_vars

(* -------------------------------- C12 ---------------------------------- *)
\* C12: the language operation itself changes neither the selected language
\* nor the recognizer of the session when it is invoked while the listening
\* flag is true, whatever the select control shows.
C12_LanguageRejectedByOperation ==
    [][ (last'.op = "language" /\ isListening)
        => UNCHANGED <<language, recognition, stale>> ]_vars

(* -------------------------------- C13 ---------------------------------- *)
\* some recognizer has reported an error and not yet its end
EndOutstanding ==
    \/ recognition.st = "ending"
    \/ \E k \in 1..Len(stale) : stale[k].st = "ending"

StatusDrivers == {"onstart", "onend", "onerror", "toggle"}

\* C13 as written: no state has an error message set while the listening
\* flag is true, and the status changes only on recognizer notifications and
\* on the user's start/stop command.
C13_NoErrorWhileListening ==
    /\ [](~(error # NoError /\ isListening))
    /\ [][ Status' # Status => last'.op \in StatusDrivers ]_vars

\* C13 amended: one status is shown, the error message taking precedence
\* over the listening flag; an error message is set while the flag is true
\* only between an error notification and the end notification that follows
\* it; the shown status changes only on recognizer notifications and on the
\* user's start/stop command.
C13_ErrorTakesPrecedence ==
    /\ []((error # NoError /\ isListening) => (Status = "Error" /\ EndOutstanding))
    /\ []((error = NoError) => (Status = IF isListening THEN "Listening" ELSE "Idle"))
    /\ [][ Status' # Status => last'.op \in StatusDrivers ]_vars

\* an error was reported in a running session whose end has not arrived
C13_Witness ==
    /\ last.op = "onerror"
    /\ error # NoError
    /\ isListening

(* -------------------------------- C14 ---------------------------------- *)
\* C14: without the speech capability every reachable state shows the error
\* status with the not-supported message, no recognizer exists, no handler
\* has called start() or stop(), and the listening flag is false.
C14_UnsupportedStaysError ==
    ~supported =>
        /\ Status = "Error"
        /\ error = NotSupportedMessage
        /\ ~isListening
        /\ recognition = NullRecognition
        /\ stale = <<>>
        /\ last.call = "none"

\* without the capability the language was changed and the toggle pressed
C14_Witness ==
    /\ ~supported
    /\ language # "en-US"
    /\ last.op = "toggle"

(* -------------------------------- C15 ---------------------------------- *)
\* C15: the toggle leaves the listening flag as it is at the call, for start
\* and for stop; the flag becomes true only in a start notification and
\* false only in an end notification, and each of them sets it so.
C15_FlagFollowsNotifications ==
    [][ /\ last'.op = "toggle" => isListening' = isListening
        /\ (~isListening /\ isListening') => last'.op = "onstart"
        /\ (isListening /\ ~isListening') => last'.op = "onend"
        /\ last'.op = "onstart" => isListening'
        /\ last'.op = "onend" => ~isListening' ]_vars

\* stop() has been called on the running recognizer and the flag is still true
C15_Witness ==
    /\ last.op = "toggle"
    /\ last.call = "stop"
    /\ recognition.st = "running"
    /\ recognition.stopRequested
    /\ isListening

(* -------------------------------- C16 ---------------------------------- *)
\* C16: an error message that is set stays shown, as the error status, over
\* every step but a start notification (a later error notification may put
\* another message in its place): the end of the session, a clear and the
\* retry itself leave it; after a start notification no error is shown.
C16_ErrorShownUntilStart ==
    /\ [](last.op = "onstart" => (error = NoError /\ Status = "Listening"))
    /\ [][ error # NoError =>
              \/ last'.op = "onstart"
              \/ last'.op = "onerror" /\ Status' = "Error"
              \/ error' = error /\ Status' = "Error" ]_vars

\* after a no-speech error the session has ended and the retry has called
\* start(): the message is still shown
C16_Witness ==
    /\ last.op = "toggle"
    /\ last.call = "start"
    /\ ~isListening
    /\ stale = <<>>
    /\ recognition.st = "starting"
    /\ error = errorMessage("no-speech")

(* -------------------------------- C17 ---------------------------------- *)
\* an error was just reported, or stop() just called, with the flag true
SessionEnding ==
    /\ isListening
    /\ \/ last.op = "onerror"
       \/ last.op = "toggle" /\ last.call = "stop"

\* the listening flag becomes false after an error or a stop()
C17_EventuallyNotListening == SessionEnding ~> ~isListening

\* C17: after an error notification or a stop() while the flag is true, the
\* flag eventually becomes false, and once it is false no result of the
\* session that was stopped changes the transcript.
C17_ErrorOrStopEndsSession ==
    /\ SessionEnding ~> ~isListening
    /\ [][ (/\ last'.op = "onresult"
            /\ last'.from = "current"
            /\ recognition.stopRequested
            /\ ~isListening)
           => transcript' = transcript ]_vars

(* -------------------------------- C18 ---------------------------------- *)
\* the recognizers whose session has started and not ended or failed
ActiveSessions ==
    (IF recognition.st = "running" THEN {recognition} ELSE {})
        \cup {stale[k] : k \in {j \in 1..Len(stale) : stale[j].st = "running"}}

\* C18: when the listening flag is false and no start() is pending on the
\* current recognizer, no recognizer, current or replaced, is in an active
\* session.
C18_NotListeningMeansNoSession ==
    (~isListening /\ recognition.st # "starting") => ActiveSessions = {}

(* -------------------------------- C19 ---------------------------------- *)
\* C19: the stored baseText is empty, or it begins with a character that is
\* not white space and ends in one space that follows a character that is
\* not white space.
C19_BaseTextWellFormed ==
    LET b == transcriptAtSessionStart
    IN  \/ b = <<>>
        \/ /\ Len(b) >= 2
           /\ ~IsWhitespace(b[1])
           /\ b[Len(b)] = " "
           /\ ~IsWhitespace(b[Len(b) - 1])

\* a session is started over a shown transcript that ends in white space
C19_Witness ==
    /\ AfterSessionStart
    /\ Len(transcript) >= 2
    /\ IsWhitespace(transcript[Len(transcript)])
    /\ transcriptAtSessionStart # <<>>

(* -------------------------------- C20 ---------------------------------- *)
\* C20: while the listening flag is true, every recognizer whose session is
\* active was configured with the language that is selected now.
C20_ListeningInSelectedLanguage ==
    isListening => \A r \in ActiveSessions : r.lang = language
====
